---------------------------- MODULE Spec2Model ----------------------------
(***************************************************************************)
(* A model of ashari-api (src/main.py): the Telegram webhook that captures *)
(* chat messages as files under /tmp/scrolls and commits them to a GitHub  *)
(* repository, and the API-key gated endpoints /spiral/date,               *)
(* /github/read and /github/write.                                         *)
(*                                                                         *)
(* Strings are sequences of one-character strings, so that the sanitizer,  *)
(* the directive parser and the path construction are computed character   *)
(* by character as the code computes them.                                 *)
(***************************************************************************)
EXTENDS Integers, Sequences, FiniteSets, TLC

(***************************************************************************)
(* Bounds of the model.                                                    *)
(***************************************************************************)
\* Number of webhook requests the model lets arrive.
MaxEvents == 3
\* Length of the longest name the sanitizer is applied to.
MaxLen == 3
\* The last day a target date of /spiral/date is drawn from (day 0 is 2025-01-01).
MaxDay == 30

(***************************************************************************)
(* Characters.                                                             *)
(***************************************************************************)
LowerSeq == <<"a","b","c","d","e","f","g","h","i","j","k","l","m",
              "n","o","p","q","r","s","t","u","v","w","x","y","z">>
UpperSeq == <<"A","B","C","D","E","F","G","H","I","J","K","L","M",
              "N","O","P","Q","R","S","T","U","V","W","X","Y","Z">>
DigitSeq == <<"0","1","2","3","4","5","6","7","8","9">>

Range(s) == {s[i] : i \in DOMAIN s}

\* str.isspace for the characters the model uses
Whitespace == {" ", "\n", "\t"}

\* one character of str.lower()
LowerChar(ch) ==
    IF ch \in Range(UpperSeq)
    THEN LowerSeq[CHOOSE i \in DOMAIN UpperSeq : UpperSeq[i] = ch]
    ELSE ch

\* str.lower()
Lower(s) == [i \in DOMAIN s |-> LowerChar(s[i])]

\* str.startswith(prefix)
StartsWith(s, prefix) ==
    /\ Len(s) >= Len(prefix)
    /\ SubSeq(s, 1, Len(prefix)) = prefix


\* str.strip(): drops leading and trailing whitespace
Strip(s) ==
    LET keep == {i \in DOMAIN s : s[i] \notin Whitespace}
    IN  IF keep = {} THEN <<>>
        ELSE LET lo == CHOOSE i \in keep : \A j \in keep : i <= j
                 hi == CHOOSE i \in keep : \A j \in keep : j <= i
             IN  SubSeq(s, lo, hi)

\* s.split(sep, 1)[1]: what follows the first occurrence of the character sep
AfterFirst(s, sep) ==
    LET at == {i \in DOMAIN s : s[i] = sep}
        first == CHOOSE i \in at : \A j \in at : i <= j
    IN  SubSeq(s, first + 1, Len(s))

\* s.split(sep)[-1]: what follows the last occurrence of the character sep
AfterLast(s, sep) ==
    LET at == {i \in DOMAIN s : s[i] = sep}
    IN  IF at = {} THEN s
        ELSE SubSeq(s, (CHOOSE i \in at : \A j \in at : j <= i) + 1, Len(s))

\* the characters of s that are in allowed, in order (re.sub of the others by "")
\* a pattern anchored at the start: only a leading character is removed
SelectCharsLeadingOnly(s, allowed) ==
    IF s # <<>> /\ Head(s) \notin allowed THEN Tail(s) ELSE s

SelectChars(s, allowed) ==
    LET Keep(ch) == ch \in allowed
    IN  SelectSeq(s, Keep)

(***************************************************************************)
(* sanitize_filename (src/main.py 58-61).                                  *)
(***************************************************************************)
\* the class [a-zA-Z0-9_\-./] of the regular expression
AllowedChars ==
    Range(LowerSeq) \cup Range(UpperSeq) \cup Range(DigitSeq) \cup {"_", "-", ".", "/"}

\* name.replace("'", "-").replace("'", "-").replace(" ", "_"), one character
\* a replacement that turns underscores into hyphens as well
ReplaceCharUnderscoreToo(ch) ==
    CASE ch = "'" -> "-"
      [] ch = " " -> "_"
      [] ch = "_" -> "-"
      [] OTHER    -> ch

ReplaceChar(ch) ==
    CASE ch = "'" -> "-"
      [] ch = " " -> "_"
      [] OTHER    -> ch

sanitize_filename(name) ==
    SelectChars([i \in DOMAIN name |-> ReplaceChar(name[i])], AllowedChars)


(***************************************************************************)
(* Optional values: Python's None against a value.                         *)
(***************************************************************************)
None == [present |-> FALSE, value |-> <<>>]
Some(v) == [present |-> TRUE, value |-> v]

\* Python's `x or default` for an optional string: None and "" are falsy
OrDefault(opt, default) ==
    IF opt.present /\ opt.value # <<>> THEN opt.value ELSE default

(***************************************************************************)
(* Strings of the program and the inputs the model draws from.             *)
(***************************************************************************)
\* "/tmp/scrolls"
ScrollsDir == <<"/","t","m","p","/","s","c","r","o","l","l","s">>
\* "last_filename_" and ".txt" of f"/tmp/scrolls/last_filename_{chat_id}.txt"
SessionPrefix == <<"l","a","s","t","_","f","i","l","e","n","a","m","e","_">>
SessionSuffix == <<".","t","x","t">>
\* "scroll.md"
DefaultName == <<"s","c","r","o","l","l",".","m","d">>
\* "save as:"
DirectivePrefix == <<"s","a","v","e"," ","a","s",":">>
\* "---"
Marker == <<"-","-","-">>

\* the chats that write to the bot
Chats == {1, 2}

\* str(n) for a natural number
RECURSIVE IntToStr(_)
IntToStr(n) ==
    IF n < 10 THEN <<DigitSeq[n + 1]>>
    ELSE IntToStr(n \div 10) \o <<DigitSeq[(n % 10) + 1]>>

\* message texts: three directives and one content
TextSaveMyNotes == <<"S","a","v","e"," ","A","s",":"," ","M","y"," ","N","o","t","e","s">>
TextSaveNothing == <<"s","a","v","e"," ","a","s",":"," ","!","?">>
TextSaveSession == <<"S","a","v","e"," ","a","s",":"," ","l","a","s","t","_","f","i","l","e","n","a","m","e","_","1",".","t","x","t">>
TextHello == <<"H","e","l","l","o"," ","w","o","r","l","d">>
Texts == {TextSaveMyNotes, TextSaveNothing, TextSaveSession, TextHello}

\* the file_path getFile answers for a photo, and the bytes of the photo
PhotoPath == <<"p","h","o","t","o","s","/","f","i","l","e","_","0",".","j","p","g">>
PhotoBytes == <<"J","P","G">>

\* "My_Notes"
MyNotes == <<"M","y","_","N","o","t","e","s">>

\* calendar days are counted from 2025-01-01 (day 0); date.isoformat()
IsoDate(d) ==
    <<"2","0","2","5","-","0","1","-">> \o (IF d + 1 < 10 THEN <<"0">> ELSE <<>>) \o IntToStr(d + 1)
\* the days the clock of the model shows
Days == {0, 1}
\* the time of day of datetime.now(eastern).isoformat()
ClockSuffix == <<"T","0","9",":","0","0",":","0","0","-","0","5",":","0","0">>


(***************************************************************************)
(* State.                                                                  *)
(***************************************************************************)
VARIABLES
    fs,       \* the local files: path -> content (session records and captures)
    remote,   \* the repository on GitHub: path -> content
    today,    \* the calendar day of the clock
    hs,       \* the webhook requests suspended at an await, by slot
    last,     \* the webhook exchange that completed last
    lastSet,  \* history: per chat, the name its last completed directive stored
    directives, \* history: per chat, the number of directives completed so far
    pw,       \* the /github/write requests in flight, by slot
    lastApi,  \* the API exchange that completed last
    received, \* history: the number of webhook requests received so far
    probe     \* a name and the results of sanitize_filename applied to it in turn

vars == <<fs, remote, today, hs, last, lastSet, directives, pw, lastApi, received, probe>>
captureVars == <<fs, today, hs, last, lastSet, directives>>
apiVars == <<pw, lastApi>>

\* the webhook requests that can be suspended at an await at once
Slots == {1, 2}
\* the slot of a specification that lets one webhook request be suspended at once
SerialSlots == {1}
\* the /github/write requests that can be in flight at once
Writers == {1, 2}
\* the writer of a specification that takes the /github/write requests in turn
SerialWriters == {1}

(***************************************************************************)
(* Local files and the Session Store.                                      *)
(***************************************************************************)
\* os.path.join("/tmp/scrolls", filename): an absolute filename replaces the base
JoinScrolls(filename) ==
    IF filename # <<>> /\ Head(filename) = "/"
    THEN filename
    ELSE ScrollsDir \o <<"/">> \o filename

\* f"/tmp/scrolls/last_filename_{chat_id}.txt"
SessionPath(chat_id) ==
    ScrollsDir \o <<"/">> \o SessionPrefix \o IntToStr(chat_id) \o SessionSuffix

\* open(path, "a"): the content is added to what the file holds
WriteFileAppending(files, path, content) ==
    [p \in DOMAIN files \cup {path} |->
        IF p = path
        THEN (IF path \in DOMAIN files THEN files[path] ELSE <<>>) \o content
        ELSE files[p]]

\* open(path, "w"); write(content): the file holds exactly content afterwards
WriteFile(files, path, content) ==
    [p \in DOMAIN files \cup {path} |-> IF p = path THEN content ELSE files[p]]

\* the session record of chat_id in the files: read and stripped, None if missing
get_last_filename_of(files, chat_id) ==
    IF SessionPath(chat_id) \in DOMAIN files
    THEN Some(Strip(files[SessionPath(chat_id)]))
    ELSE None

get_last_filename(chat_id) == get_last_filename_of(fs, chat_id)

(***************************************************************************)
(* The parts of receive_telegram_update.                                   *)
(***************************************************************************)
\* text.lower().startswith("save as:")
IsDirective(text) == StartsWith(Lower(text), DirectivePrefix)

\* sanitize_filename(text.split(":", 1)[1].strip())
DirectiveName(text) == sanitize_filename(Strip(AfterFirst(text, ":")))

\* sanitize_filename(get_last_filename(chat_id) or "scroll.md")
ResolveTextFilename(chat_id) ==
    sanitize_filename(OrDefault(get_last_filename(chat_id), DefaultName))

\* sanitize_filename(get_last_filename(chat_id) or file_path.split("/")[-1])
ResolvePhotoFilename(chat_id, file_path) ==
    sanitize_filename(OrDefault(get_last_filename(chat_id), AfterLast(file_path, "/")))

\* users.get_username(chat_id): the display name of the chat
get_username(chat_id) == <<"u","s","e","r">> \o IntToStr(chat_id)

\* text.replace("'", "'").replace("'", "'")..., as the source file spells it
NormalizeQuotes(text) ==
    [i \in DOMAIN text |-> IF text[i] = "'" THEN "'" ELSE text[i]]

\* yaml.dump(frontmatter, sort_keys=False) for title, author, date, timestamp
FrontmatterYaml(filename, chat_id, day) ==
    <<"t","i","t","l","e",":"," ">> \o filename \o <<"\n">>
    \o <<"a","u","t","h","o","r",":"," ">> \o get_username(chat_id) \o <<"\n">>
    \o <<"d","a","t","e",":"," ">> \o <<"'">> \o IsoDate(day) \o <<"'", "\n">>
    \o <<"t","i","m","e","s","t","a","m","p",":"," ">> \o <<"'">> \o IsoDate(day) \o ClockSuffix \o <<"'", "\n">>

\* the text written for a text message: annotated unless it starts with "---"
AnnotatedText(text, filename, chat_id, day) ==
    IF StartsWith(Strip(text), Marker)
    THEN text
    ELSE Marker \o <<"\n">> \o FrontmatterYaml(filename, chat_id, day)
         \o Marker \o <<"\n", "\n">> \o NormalizeQuotes(text)

\* the message send_reply posts to the chat
Reply(chat_id, kind, filename) == [chat |-> chat_id, kind |-> kind, filename |-> filename]

\* a handler that lets the failure through as a server error
WebhookErrorAs500 == [status |-> 500, ok |-> FALSE]

\* JSONResponse(content={"ok": False, "error": str(e)}, status_code=200)
WebhookError == [status |-> 200, ok |-> FALSE]

\* JSONResponse(content={"ok": True}, status_code=200)
WebhookOk == [status |-> 200, ok |-> TRUE]

IdleSlot ==
    [pc |-> "idle", chat |-> 0, input |-> <<>>, day |-> 0, filename |-> <<>>,
     filepath |-> <<>>, text |-> <<>>, named |-> None]

NoExchange ==
    [kind |-> "none", chat |-> 0, status |-> 0, ok |-> FALSE, failed |-> "", acks |-> <<>>]

\* the record of a completed exchange: the response, the step that raised ("" if
\* none did) and the messages send_reply posted
Exchange(kind, chat_id, failed, acks) ==
    LET resp == IF failed = "" THEN WebhookOk ELSE WebhookError
    IN  [kind |-> kind, chat |-> chat_id, status |-> resp.status, ok |-> resp.ok,
         failed |-> failed, acks |-> acks]

\* github_utils.commit_file_to_github(filename, filepath): the content of the
\* local file is put at path filename of the repository
commit_file_to_github(repo, filename, content) ==
    [p \in DOMAIN repo \cup {filename} |-> IF p = filename THEN content ELSE repo[p]]

(***************************************************************************)
(* POST /webhook: receive_telegram_update (src/main.py 78-141).            *)
(* The handler is a coroutine: it runs without interruption between two    *)
(* awaits.  A directive and a photo are handled with blocking calls only,  *)
(* so each is one step; a text capture awaits aiofiles.open, f.write and   *)
(* the close, so it is suspended there and other requests run meanwhile.   *)
(* Every call that can raise is given the outcome "raises" as well.        *)
(***************************************************************************)

\* one more webhook request arrives
Arrive ==
    /\ received < MaxEvents
    /\ received' = received + 1

\* request.json() raises, or the update has a message without chat or id
ReceiveMalformed ==
    /\ Arrive
    /\ last' = Exchange("malformed", 0, "parse", <<>>)
    /\ UNCHANGED <<fs, remote, today, hs, lastSet, directives, apiVars, probe>>

\* an update without "message"
ReceiveNoMessage ==
    /\ Arrive
    /\ last' = Exchange("nomessage", 0, "", <<>>)
    /\ UNCHANGED <<fs, remote, today, hs, lastSet, directives, apiVars, probe>>

\* a message with neither "text" nor "photo"
ReceiveOther(chat_id) ==
    /\ Arrive
    /\ last' = Exchange("other", chat_id, "", <<>>)
    /\ UNCHANGED <<fs, remote, today, hs, lastSet, directives, apiVars, probe>>

\* "save as: <name>": lines 89-94
ReceiveDirective(chat_id, text) ==
    /\ IsDirective(text)
    /\ Arrive
    /\ LET filename == DirectiveName(text)
       IN  \E outcome \in {"ok", "session_write", "reply"} :
             /\ IF outcome = "session_write"
                THEN UNCHANGED <<fs, lastSet>>
                ELSE /\ fs' = WriteFile(fs, SessionPath(chat_id), filename)
                     /\ lastSet' = [lastSet EXCEPT ![chat_id] = Some(filename)]
             /\ last' = Exchange("directive", chat_id,
                                 IF outcome = "ok" THEN "" ELSE outcome,
                                 IF outcome = "ok"
                                 THEN <<Reply(chat_id, "filename_set", filename)>>
                                 ELSE <<>>)
    /\ directives' = [directives EXCEPT ![chat_id] = @ + 1]
    /\ UNCHANGED <<remote, today, hs, apiVars, probe>>

\* a text that is no directive: lines 96-112, up to the await of aiofiles.open
ReceiveText(s, chat_id, text) ==
    /\ ~IsDirective(text)
    /\ hs[s].pc = "idle"
    /\ Arrive
    /\ LET filename == ResolveTextFilename(chat_id)
       IN  hs' = [hs EXCEPT ![s] =
                    [pc |-> "open", chat |-> chat_id, input |-> text, day |-> today,
                     filename |-> filename, filepath |-> JoinScrolls(filename),
                     text |-> AnnotatedText(text, filename, chat_id, today),
                     named |-> lastSet[chat_id]]]
    /\ UNCHANGED <<fs, remote, today, last, lastSet, directives, apiVars, probe>>

\* aiofiles.open(filepath, 'w'): the file is created or truncated (line 114)
OpenLocal(s) ==
    /\ hs[s].pc = "open"
    /\ \E ok \in BOOLEAN :
         IF ok
         THEN /\ fs' = WriteFile(fs, hs[s].filepath, <<>>)
              /\ hs' = [hs EXCEPT ![s].pc = "write"]
              /\ UNCHANGED last
         ELSE /\ last' = Exchange("text", hs[s].chat, "local_write", <<>>)
              /\ hs' = [hs EXCEPT ![s] = IdleSlot]
              /\ UNCHANGED fs
    /\ UNCHANGED <<remote, today, lastSet, directives, apiVars, received, probe>>

\* await f.write(text) and the close of the file (lines 114-115)
FlushLocal(s) ==
    /\ hs[s].pc = "write"
    /\ \E ok \in BOOLEAN :
         IF ok
         THEN /\ fs' = WriteFile(fs, hs[s].filepath, hs[s].text)
              /\ hs' = [hs EXCEPT ![s].pc = "commit"]
              /\ UNCHANGED last
         ELSE /\ last' = Exchange("text", hs[s].chat, "local_write", <<>>)
              /\ hs' = [hs EXCEPT ![s] = IdleSlot]
              /\ UNCHANGED fs
    /\ UNCHANGED <<remote, today, lastSet, directives, apiVars, received, probe>>

\* a handler that sends the reply before it commits: the chat is told "saved"
\* although the commit raises afterwards
ReplyThenCommit(s) ==
    /\ hs[s].pc = "commit"
    /\ \E outcome \in {"ok", "commit", "reply"} :
         /\ IF outcome = "ok"
            THEN remote' = commit_file_to_github(remote, hs[s].filename, fs[hs[s].filepath])
            ELSE UNCHANGED remote
         /\ last' = Exchange("text", hs[s].chat,
                             IF outcome = "ok" THEN "" ELSE outcome,
                             IF outcome \in {"ok", "commit"}
                             THEN <<Reply(hs[s].chat, "scroll_saved", hs[s].filename)>>
                             ELSE <<>>)
    /\ hs' = [hs EXCEPT ![s] = IdleSlot]
    /\ UNCHANGED <<fs, today, lastSet, directives, apiVars, received, probe>>

\* commit_file_to_github, send_reply and the response (lines 116-117, 136-141)
CommitAndReply(s) ==
    /\ hs[s].pc = "commit"
    /\ \E outcome \in {"ok", "commit", "reply"} :
         /\ IF outcome = "commit"
            THEN UNCHANGED remote
            ELSE remote' = commit_file_to_github(remote, hs[s].filename, fs[hs[s].filepath])
         /\ last' = Exchange("text", hs[s].chat,
                             IF outcome = "ok" THEN "" ELSE outcome,
                             IF outcome = "ok"
                             THEN <<Reply(hs[s].chat, "scroll_saved", hs[s].filename)>>
                             ELSE <<>>)
    /\ hs' = [hs EXCEPT ![s] = IdleSlot]
    /\ UNCHANGED <<fs, today, lastSet, directives, apiVars, received, probe>>

\* a photo: lines 120-134, blocking calls only
ReceivePhoto(chat_id) ==
    LET filename == ResolvePhotoFilename(chat_id, PhotoPath)
        local_path == JoinScrolls(filename)
    IN  /\ Arrive
        /\ \E outcome \in {"ok", "get_file", "fetch", "local_write", "commit", "reply"} :
             LET wrote == outcome \in {"ok", "commit", "reply"}
                 committed == outcome \in {"ok", "reply"}
             IN  /\ fs' = IF wrote THEN WriteFile(fs, local_path, PhotoBytes) ELSE fs
                 /\ remote' = IF committed
                              THEN commit_file_to_github(remote, filename, PhotoBytes)
                              ELSE remote
                 /\ last' = Exchange("photo", chat_id,
                                     IF outcome = "ok" THEN "" ELSE outcome,
                                     IF outcome = "ok"
                                     THEN <<Reply(chat_id, "image_saved", filename)>>
                                     ELSE <<>>)
        /\ UNCHANGED <<today, hs, lastSet, directives, apiVars, probe>>

(***************************************************************************)
(* The API-key gate of /spiral/date, /github/read and /github/write        *)
(* (src/main.py 201-224, 301-314, 397-410).                                *)
(***************************************************************************)
\* an API key as the header or the query parameter gives it: absent, or a string
KeyNone == [present |-> FALSE, value |-> ""]
Key(k) == [present |-> TRUE, value |-> k]
KeyInputs == {KeyNone, Key(""), Key("key-adge"), Key("key-unknown")}

\* Python's truth value of an optional string
Truthy(opt) == opt.present /\ opt.value # ""

\* api_key or x_api_key: the query parameter first
EffectiveKeyQueryFirst(x_api_key, api_key) == IF Truthy(api_key) THEN api_key ELSE x_api_key

\* x_api_key or api_key
EffectiveKey(x_api_key, api_key) == IF Truthy(x_api_key) THEN x_api_key ELSE api_key

\* the user table behind config.get_user_by_api_key; days count from 2025-01-01
Users == [k \in {"key-adge"} |-> [name |-> "Adge", spiral_start_date |-> 1]]

\* config.get_user_by_api_key(key): the user's configuration, or None
get_user_by_api_key(key) ==
    IF key \in DOMAIN Users
    THEN [present |-> TRUE, value |-> Users[key]]
    ELSE [present |-> FALSE, value |-> [name |-> "", spiral_start_date |-> 0]]

\* a gate that lets every request with a key through
GateStatusAnyKey(x_api_key, api_key) ==
    IF ~Truthy(EffectiveKey(x_api_key, api_key)) THEN 401 ELSE 0

\* the status the gate answers with, 0 when the request may proceed
GateStatus(x_api_key, api_key) ==
    LET key == EffectiveKey(x_api_key, api_key)
    IN  IF ~Truthy(key) THEN 401
        ELSE IF ~get_user_by_api_key(key.value).present THEN 403
        ELSE 0

(***************************************************************************)
(* calculate_spiral_date (src/main.py 27-56).  A date is its day number.   *)
(***************************************************************************)
\* a calculation that counts cycles and days from zero
calculate_spiral_date_from_zero(target_date, spiral_start) ==
    LET delta == target_date - spiral_start
    IN  IF delta < 0 THEN None
        ELSE Some(IntToStr(delta \div 9) \o <<".">> \o IntToStr(delta % 9))

\* a calculation without the test of lines 49-50
calculate_spiral_date_unchecked(target_date, spiral_start) ==
    LET delta == target_date - spiral_start
    IN  Some(IntToStr((delta \div 9) + 1) \o <<".">> \o IntToStr((delta % 9) + 1))

\* the result of calculate_spiral_date: None stands for the ValueError
calculate_spiral_date(target_date, spiral_start) ==
    LET delta == target_date - spiral_start
    IN  IF delta < 0 THEN None
        ELSE Some(IntToStr((delta \div 9) + 1) \o <<".">> \o IntToStr((delta % 9) + 1))

(***************************************************************************)
(* The repository as the GitHub contents API shows it.                     *)
(***************************************************************************)
\* the blob sha of a content: a function of the content alone
BlobSha(content) == [blob |-> content]

\* the paths and contents API requests and other clients write
ApiPaths == {MyNotes}
ApiContents == {<<"v","1">>, <<"v","2">>}

\* GET /contents/{path}: 200 with the sha, or 404
RemoteGet(repo, path) ==
    IF path \in DOMAIN repo
    THEN [status |-> 200, sha |-> Some(BlobSha(repo[path]))]
    ELSE [status |-> 404, sha |-> None]

\* PUT /contents/{path}: an update must carry the current sha, a create none
RemotePut(repo, path, payload) ==
    IF path \in DOMAIN repo
    THEN IF ~payload.sha.present THEN [status |-> 422, repo |-> repo]
         ELSE IF payload.sha.value # BlobSha(repo[path]) THEN [status |-> 409, repo |-> repo]
         ELSE [status |-> 200,
               repo |-> [p \in DOMAIN repo |-> IF p = path THEN payload.content ELSE repo[p]]]
    ELSE IF payload.sha.present THEN [status |-> 422, repo |-> repo]
         ELSE [status |-> 201,
               repo |-> [p \in DOMAIN repo \cup {path} |->
                           IF p = path THEN payload.content ELSE repo[p]]]

\* base64, as the contents API encodes a file and b64decode(...).decode("utf-8")
\* decodes it: the encoded form is no string of the program
B64Encode(content) == [b64 |-> content]
B64Decode(encoded) == encoded.b64

\* the JSON body of a 200 answer to GET /contents/{path}
RemoteFile(repo, path) ==
    [content |-> B64Encode(repo[path]), sha |-> BlobSha(repo[path]), size |-> Len(repo[path])]

\* response.raise_for_status(): raises HTTPError for 4xx and 5xx
RaisesForStatus(status) == status >= 400 /\ status < 600

(***************************************************************************)
(* The records of API exchanges.                                           *)
(***************************************************************************)
NoPut == [issued |-> FALSE, sha |-> None, existed |-> FALSE, current |-> None]
NoLookup == [status |-> 0, sha |-> None]

NoApi ==
    [endpoint |-> "none", stage |-> "request", header |-> KeyNone, query |-> KeyNone,
     user |-> "", status |-> 0, calls |-> 0, notation |-> None, body |-> "",
     upstream |-> 0, looked |-> NoLookup, sent |-> NoPut,
     path |-> <<>>, content |-> None, revision |-> None, size |-> 0,
     format |-> "", parsed |-> None]

\* an exchange that ends in the handler's first step: the request's keys, the
\* status answered, the number of calls made to the repository and the notation
\* computed, if any
ApiExchange(endpoint, header, query, status, calls, notation) ==
    [NoApi EXCEPT !.endpoint = endpoint, !.header = header, !.query = query,
                  !.status = status, !.calls = calls, !.notation = notation]

\* a /github/write exchange that ends after the gate and the validation, at
\* stage "lookup" or "put", on behalf of user_name
WriteExchange(stage, user_name, status, calls) ==
    [NoApi EXCEPT !.endpoint = "write", !.stage = stage, !.user = user_name,
                  !.status = status, !.calls = calls, !.body = "complete"]

IdleWriter ==
    [pc |-> "idle", user |-> "", path |-> <<>>, content |-> <<>>, sha |-> None,
     looked |-> NoLookup]

(***************************************************************************)
(* GET /spiral/date: get_spiral_date (src/main.py 178-284).                *)
(***************************************************************************)
\* target_date: absent, not a %Y-%m-%d date, or the date of a day number
TargetInputs(days) ==
    {[kind |-> "absent", day |-> 0], [kind |-> "unparseable", day |-> 0]}
    \cup {[kind |-> "date", day |-> d] : d \in days}

NotationRequest(header, query, target, format) ==
    LET gate == GateStatus(header, query)
        user == get_user_by_api_key(EffectiveKey(header, query).value).value
        parsed == IF target.kind = "absent" THEN today ELSE target.day
        notation == calculate_spiral_date(parsed, user.spiral_start_date)
        done(status, label) ==
            [ApiExchange("notation", header, query, status, 0, label)
               EXCEPT !.format = format, !.user = user.name]
    IN  /\ lastApi' =
              IF gate # 0 THEN ApiExchange("notation", header, query, gate, 0, None)
              ELSE IF target.kind = "unparseable"
                   THEN done(400, None)
              ELSE IF ~notation.present
                   THEN [done(400, None) EXCEPT !.parsed = Some(parsed)]
              ELSE [done(200, notation) EXCEPT !.parsed = Some(parsed), !.body = format]
        /\ UNCHANGED <<remote, pw, captureVars, received, probe>>

(***************************************************************************)
(* GET /github/read/{path}: read_github_file (src/main.py 288-371).        *)
(***************************************************************************)
\* the statuses the repository answers a read with when it fails
ReadFailures == {403, 503}

\* a handler without raise_for_status: a failed answer has no "content", and the
\* KeyError ends in the generic handler
ReadStatusUnraised(upstream) ==
    IF upstream = 404 THEN 404
    ELSE IF RaisesForStatus(upstream) THEN 500
    ELSE 200

\* the status answered after the repository answered upstream: lines 326-362
ReadStatus(upstream) ==
    IF upstream = 404 THEN 404
    ELSE IF RaisesForStatus(upstream) THEN upstream
    ELSE 200

\* base64.b64decode(data["content"]).decode("utf-8")
ReadContent(data) == Some(B64Decode(data.content))

ReadRequest(header, query, file_path) ==
    LET gate == GateStatus(header, query)
        user == get_user_by_api_key(EffectiveKey(header, query).value).value
        got == RemoteGet(remote, file_path)
        done(status, calls) ==
            [ApiExchange("read", header, query, status, calls, None)
               EXCEPT !.path = file_path, !.user = user.name]
    IN  /\ \E upstream \in {0, got.status} \cup ReadFailures :
              lastApi' =
                IF gate # 0 THEN done(gate, 0)
                ELSE IF upstream = 0
                     THEN done(500, 1)
                ELSE IF ReadStatus(upstream) # 200
                     THEN [done(ReadStatus(upstream), 1) EXCEPT !.upstream = upstream]
                ELSE LET data == RemoteFile(remote, file_path)
                     IN  [done(200, 1) EXCEPT !.upstream = upstream,
                                              !.body = "content",
                                              !.content = ReadContent(data),
                                              !.revision = Some(data.sha),
                                              !.size = data.size]
        /\ UNCHANGED <<remote, pw, captureVars, received, probe>>

(***************************************************************************)
(* POST /github/write: write_github_file (src/main.py 375-490).            *)
(***************************************************************************)
\* the JSON body: not JSON at all, or an object in which path and content
\* may be missing or empty
BodyInputs ==
    {[valid |-> FALSE, path |-> None, content |-> None]}
    \cup [valid : {TRUE},
          path : {None, Some(<<>>)} \cup {Some(p) : p \in ApiPaths},
          content : {None, Some(<<>>)} \cup {Some(c) : c \in ApiContents}]

\* a validation that forgets the content
MissingFieldsPathOnly(body) == ~body.path.present \/ body.path.value = <<>>

\* not file_path or not content
MissingFields(body) ==
    \/ ~body.path.present \/ body.path.value = <<>>
    \/ ~body.content.present \/ body.content.value = <<>>

\* a lookup whose sha is never read
LookupShaNever(answer) == None

\* sha = None; if existing.status_code == 200: sha = existing.json()["sha"]
LookupSha(answer) == IF answer.status = 200 THEN answer.sha ELSE None

\* a payload that never carries the sha
PutPayloadWithoutSha(content, sha) == [content |-> content, sha |-> None]

\* payload = {message, content, branch}; if sha: payload["sha"] = sha
PutPayload(content, sha) == [content |-> content, sha |-> sha]

\* an error mapping that answers 500 whatever the repository said
HttpErrorStatusAs500(upstream) == 500

\* except requests.exceptions.HTTPError: status_code=e.response.status_code
HttpErrorStatus(upstream) == upstream

\* the gate, the body and its validation: lines 397-426
WriteRequest(w, header, query, body) ==
    LET gate == GateStatus(header, query)
        user == get_user_by_api_key(EffectiveKey(header, query).value).value
        kind == IF ~body.valid THEN "malformed"
                ELSE IF ~body.path.present \/ ~body.content.present THEN "missing"
                ELSE IF MissingFields(body) THEN "empty"
                ELSE "complete"
    IN  /\ pw[w].pc = "idle"
        /\ IF gate # 0
           THEN /\ lastApi' = [ApiExchange("write", header, query, gate, 0, None)
                                 EXCEPT !.body = kind, !.user = user.name]
                /\ UNCHANGED pw
           ELSE IF ~body.valid
           THEN /\ lastApi' = [ApiExchange("write", header, query, 500, 0, None)
                                 EXCEPT !.body = kind, !.user = user.name]
                /\ UNCHANGED pw
           ELSE IF MissingFields(body)
           THEN /\ lastApi' = [ApiExchange("write", header, query, 400, 0, None)
                                 EXCEPT !.body = kind, !.user = user.name]
                /\ UNCHANGED pw
           ELSE /\ pw' = [pw EXCEPT ![w] =
                            [IdleWriter EXCEPT !.pc = "lookup",
                                               !.user = user.name,
                                               !.path = body.path.value,
                                               !.content = body.content.value]]
                /\ UNCHANGED lastApi
        /\ UNCHANGED <<remote, captureVars, received, probe>>

\* existing = requests.get(url): lines 428-438
WriteLookup(w) ==
    /\ pw[w].pc = "lookup"
    /\ \E outcome \in {"answer", "error", "raise"} :
         IF outcome = "raise"
         THEN /\ lastApi' = WriteExchange("lookup", pw[w].user, 500, 1)
              /\ pw' = [pw EXCEPT ![w] = IdleWriter]
         ELSE LET answer == IF outcome = "error"
                            THEN [status |-> 503, sha |-> None]
                            ELSE RemoteGet(remote, pw[w].path)
              IN  /\ pw' = [pw EXCEPT ![w].pc = "put", ![w].looked = answer,
                                      ![w].sha = LookupSha(answer)]
                  /\ UNCHANGED lastApi
    /\ UNCHANGED <<remote, captureVars, received, probe>>

\* requests.put(url, json=payload), raise_for_status and the response: 440-490
WritePut(w) ==
    /\ pw[w].pc = "put"
    /\ LET payload == PutPayload(pw[w].content, pw[w].sha)
           sent == [issued |-> TRUE, sha |-> payload.sha,
                    existed |-> pw[w].path \in DOMAIN remote,
                    current |-> RemoteGet(remote, pw[w].path).sha]
           done(status, upstream) ==
               [WriteExchange("put", pw[w].user, status, 2)
                  EXCEPT !.upstream = upstream, !.looked = pw[w].looked, !.sent = sent]
       IN  \E outcome \in {"answer", "error", "raise"} :
             IF outcome = "raise"
             THEN /\ lastApi' = done(500, 0)
                  /\ UNCHANGED remote
             ELSE LET r == IF outcome = "error"
                           THEN [status |-> 503, repo |-> remote]
                           ELSE RemotePut(remote, pw[w].path, payload)
                  IN  /\ remote' = r.repo
                      /\ lastApi' = IF RaisesForStatus(r.status)
                                    THEN done(HttpErrorStatus(r.status), r.status)
                                    ELSE done(200, r.status)
    /\ pw' = [pw EXCEPT ![w] = IdleWriter]
    /\ UNCHANGED <<captureVars, received, probe>>

(***************************************************************************)
(* Other clients of the repository: a push that sets or deletes a path.    *)
(***************************************************************************)
ExternalPush(path, content) ==
    /\ remote' = [p \in DOMAIN remote \cup {path} |->
                    IF p = path THEN content ELSE remote[p]]
    /\ UNCHANGED <<pw, lastApi, captureVars, received, probe>>

ExternalDelete(path) ==
    /\ path \in DOMAIN remote
    /\ remote' = [p \in DOMAIN remote \ {path} |-> remote[p]]
    /\ UNCHANGED <<pw, lastApi, captureVars, received, probe>>

\* no name under the sanitizer
NoProbe == [arg |-> <<>>, outs |-> <<>>]

\* the program after start-up: no file, no request in flight, nothing answered
InitProgram ==
    /\ fs = [p \in {} |-> <<>>]
    /\ remote = [p \in {} |-> <<>>]
    /\ today \in Days
    /\ hs = [s \in Slots |-> IdleSlot]
    /\ last = NoExchange
    /\ lastSet = [c \in Chats |-> None]
    /\ directives = [c \in Chats |-> 0]
    /\ pw = [w \in Writers |-> IdleWriter]
    /\ lastApi = NoApi
    /\ received = 0

Init ==
    /\ InitProgram
    /\ probe = NoProbe

NextCapture ==
    \/ ReceiveMalformed
    \/ ReceiveNoMessage
    \/ \E c \in Chats : ReceiveOther(c)
    \/ \E c \in Chats, t \in Texts : ReceiveDirective(c, t)
    \/ \E s \in SerialSlots, c \in Chats, t \in Texts : ReceiveText(s, c, t)
    \/ \E s \in SerialSlots : OpenLocal(s)
    \/ \E s \in SerialSlots : FlushLocal(s)
    \/ \E s \in SerialSlots : CommitAndReply(s)
    \/ \E c \in Chats : ReceivePhoto(c)

NextApi ==
    \/ \E h \in KeyInputs, q \in KeyInputs, t \in TargetInputs({0, 10}), f \in {"json", "short"} :
         NotationRequest(h, q, t, f)
    \/ \E h \in KeyInputs, q \in KeyInputs, p \in ApiPaths : ReadRequest(h, q, p)
    \/ \E w \in SerialWriters, h \in KeyInputs, q \in KeyInputs, b \in BodyInputs :
         WriteRequest(w, h, q, b)
    \/ \E w \in SerialWriters : WriteLookup(w)
    \/ \E w \in SerialWriters : WritePut(w)
    \/ \E p \in ApiPaths, c \in ApiContents : ExternalPush(p, c)
    \/ \E p \in ApiPaths : ExternalDelete(p)

Next == NextCapture \/ NextApi

\* the whole program
Spec == Init /\ [][Next]_vars

\* the webhook alone
SpecCapture == Init /\ [][NextCapture]_vars

\* the API endpoints and the other clients of the repository alone
SpecApi == Init /\ [][NextApi]_vars

(***************************************************************************)
(* sanitize_filename on its own (src/main.py 58-61): a name drawn from the *)
(* strings of at most MaxLen characters of NameChars, and the sanitizer    *)
(* applied to it, then to its own result.                                  *)
(***************************************************************************)
\* letters, a digit, the four punctuation marks the pattern keeps, the two
\* characters line 59 replaces, and characters the pattern removes
NameChars == {"a", "Z", "7", "_", "-", ".", "/", " ", "'", "!", "\n"}

Names == UNION {[1..n -> NameChars] : n \in 0..MaxLen}

InitSanitize ==
    /\ InitProgram
    /\ probe \in {[arg |-> x, outs |-> <<>>] : x \in Names}

\* sanitize_filename(name), name being the argument or the previous result
Sanitize ==
    /\ Len(probe.outs) < 2
    /\ LET name == IF probe.outs = <<>> THEN probe.arg ELSE probe.outs[Len(probe.outs)]
       IN  probe' = [probe EXCEPT !.outs = Append(probe.outs, sanitize_filename(name))]
    /\ UNCHANGED <<fs, remote, today, hs, last, lastSet, directives, pw, lastApi, received>>

\* the sanitizer alone
SpecSanitize == InitSanitize /\ [][Sanitize]_vars

\* the webhook with content events only: texts that are no directive, and photos
NextContent ==
    \/ \E s \in SerialSlots, c \in Chats, t \in Texts : ReceiveText(s, c, t)
    \/ \E s \in SerialSlots : OpenLocal(s)
    \/ \E s \in SerialSlots : FlushLocal(s)
    \/ \E s \in SerialSlots : CommitAndReply(s)
    \/ \E c \in Chats : ReceivePhoto(c)

SpecContent == Init /\ [][NextContent]_vars

\* the webhook with the text messages of two chats handled at once: slot c holds
\* the text capture of chat c while it is suspended at an await, so each chat's
\* captures follow one another and the two chats' captures interleave
CrossTexts == {TextSaveMyNotes, TextSaveNothing, TextHello}

NextCross ==
    \/ \E c \in Chats, t \in CrossTexts : ReceiveDirective(c, t)
    \/ \E c \in Chats \cap Slots, t \in CrossTexts : ReceiveText(c, c, t)
    \/ \E s \in Slots : OpenLocal(s)
    \/ \E s \in Slots : FlushLocal(s)
    \/ \E s \in Slots : CommitAndReply(s)

SpecCross == Init /\ [][NextCross]_vars

\* the webhook with directives only: the handler of a directive has no await
\* between its open, its write and its reply, so on the event loop two
\* directives run one after the other, in either order
\* two more directives: an upper-case prefix, and a name with spaces around it
TextSaveUpper == <<"S","A","V","E"," ","A","S",":","n","o","t","e","s",".","m","d">>
TextSaveSpaced == <<"s","a","v","e"," ","a","s",":"," "," ","d","r","a","f","t"," ","1"," ">>

DirectiveTexts == {t \in Texts : IsDirective(t)} \cup {TextSaveUpper, TextSaveSpaced}

NextDirectives == \E c \in Chats, t \in DirectiveTexts : ReceiveDirective(c, t)

SpecDirectives == Init /\ [][NextDirectives]_vars

\* /github/write alone, two requests in flight at once and no other client:
\* two worker processes, or two instances of the service, since the blocking
\* calls of one handler keep the event loop of its own process
NextWriters ==
    \/ \E w \in Writers, h \in KeyInputs, q \in KeyInputs, b \in BodyInputs :
         WriteRequest(w, h, q, b)
    \/ \E w \in Writers : WriteLookup(w)
    \/ \E w \in Writers : WritePut(w)

SpecWriters == Init /\ [][NextWriters]_vars

\* /spiral/date alone, for every target date up to MaxDay
NextNotate ==
    \E h \in KeyInputs, q \in KeyInputs, t \in TargetInputs(0..MaxDay), f \in {"json", "short"} :
        NotationRequest(h, q, t, f)

SpecNotate == Init /\ [][NextNotate]_vars

(***************************************************************************)
(* Properties.                                                             *)
(***************************************************************************)

\* a step of the handling of a content event (a text that is no directive, or a
\* photo), against a step of a directive or of an update without content
ContentStep ==
    \/ \E s \in Slots, c \in Chats, t \in Texts : ReceiveText(s, c, t)
    \/ \E s \in Slots : OpenLocal(s) \/ FlushLocal(s) \/ CommitAndReply(s)
    \/ \E c \in Chats : ReceivePhoto(c)

\* C1: every completed webhook exchange answers 200; its body has ok = false
\* exactly when a step of the handling raised, and ok = true otherwise.
C1_WebhookAlways200 ==
    last.kind # "none" =>
        /\ last.status = 200
        /\ last.ok <=> (last.failed = "")

\* a photo whose remote commit raised was answered 200 with ok = false
C1_Witness ==
    /\ last.kind = "photo"
    /\ last.failed = "commit"
    /\ last.status = 200
    /\ ~last.ok

\* C2 as claimed: the write request carries a revision hash if and only if the
\* path exists in the repository when the request is issued, and then it is the
\* path's current hash.
C2_ShaIffPathExists ==
    lastApi.sent.issued =>
        /\ lastApi.sent.sha.present <=> lastApi.sent.existed
        /\ lastApi.sent.existed => lastApi.sent.sha = lastApi.sent.current

\* C2 as amended: the write request carries a revision hash if and only if the
\* preceding lookup answered 200, and then it is exactly the hash that lookup
\* returned; after any other answer of the lookup the request carries none.
C2_ShaFromLookup ==
    lastApi.sent.issued =>
        IF lastApi.looked.status = 200
        THEN lastApi.sent.sha.present /\ lastApi.sent.sha = lastApi.looked.sha
        ELSE ~lastApi.sent.sha.present

\* an update: the lookup found the path and the write carried its hash
C2_Witness ==
    /\ lastApi.sent.issued
    /\ lastApi.looked.status = 200
    /\ lastApi.sent.sha.present
    /\ lastApi.status = 200

\* C3: when the repository answers the write request with an error status (in
\* particular 409 for a stale hash), the response of /github/write has exactly
\* that status, and is no success.
C3_UpstreamStatusPreserved ==
    (lastApi.sent.issued /\ lastApi.upstream # 0 /\ lastApi.upstream \notin 200..299) =>
        /\ lastApi.status = lastApi.upstream
        /\ lastApi.status # 200

\* the path changed between the lookup and the write: 409, answered as 409
C3_Witness ==
    /\ lastApi.sent.issued
    /\ lastApi.sent.sha.present
    /\ lastApi.sent.sha # lastApi.sent.current
    /\ lastApi.upstream = 409
    /\ lastApi.status = 409

\* C4: for every chat, get_last_filename returns exactly the name the chat's
\* last directive stored, and None if no directive of the chat stored one.
C4_LatestValueOnly ==
    \A c \in Chats : get_last_filename(c) = lastSet[c]

\* the key a request offers: the header's if it has one, else the query's
OfferedKey(x) == IF Truthy(x.header) THEN x.header.value ELSE x.query.value

\* the request offers no key at all
NoCredential(x) == ~Truthy(x.header) /\ ~Truthy(x.query)

\* C5: on /spiral/date, /github/read and /github/write a request without
\* credential is answered 401 and one with an unknown credential 403, in both
\* cases with no call to the repository and no notation computed; a
\* /github/write request is past its first step only on behalf of a user.
C5_GateFirst ==
    /\ (lastApi.endpoint # "none" /\ lastApi.stage = "request") =>
          /\ NoCredential(lastApi) =>
                lastApi.status = 401 /\ lastApi.calls = 0 /\ ~lastApi.notation.present
          /\ (~NoCredential(lastApi) /\ OfferedKey(lastApi) \notin DOMAIN Users) =>
                lastApi.status = 403 /\ lastApi.calls = 0 /\ ~lastApi.notation.present
    /\ lastApi.stage # "request" => lastApi.user \in {Users[k].name : k \in DOMAIN Users}
    /\ \A w \in Writers :
          pw[w].pc # "idle" => pw[w].user \in {Users[k].name : k \in DOMAIN Users}

\* a /github/write request with an unknown key in the header was answered 403
C5_Witness ==
    /\ lastApi.endpoint = "write"
    /\ lastApi.header = Key("key-unknown")
    /\ lastApi.status = 403
    /\ lastApi.calls = 0

\* C6: an authenticated /github/write request whose body has no path or no
\* content is answered 400 without any call to the repository, and no request
\* goes on to the lookup without both.
C6_MissingFieldRejected ==
    /\ ( /\ lastApi.endpoint = "write"
         /\ lastApi.stage = "request"
         /\ ~NoCredential(lastApi)
         /\ OfferedKey(lastApi) \in DOMAIN Users
         /\ lastApi.body = "missing" ) =>
            lastApi.status = 400 /\ lastApi.calls = 0
    /\ \A w \in Writers :
          pw[w].pc # "idle" => pw[w].path # <<>> /\ pw[w].content # <<>>

\* an authenticated write without content was answered 400
C6_Witness ==
    /\ lastApi.endpoint = "write"
    /\ lastApi.header = Key("key-adge")
    /\ lastApi.body = "missing"
    /\ lastApi.status = 400
    /\ lastApi.calls = 0

\* the text the end-to-end capture is to store: a frontmatter block with the
\* title and the date, then the text of the message
CaptureOf(name, chat_id, day, text) ==
    <<"-","-","-","\n">> \o <<"t","i","t","l","e",":"," ">> \o name \o <<"\n">>
    \o <<"a","u","t","h","o","r",":"," ">> \o <<"u","s","e","r">> \o IntToStr(chat_id) \o <<"\n">>
    \o <<"d","a","t","e",":"," ">> \o <<"'">> \o IsoDate(day) \o <<"'", "\n">>
    \o <<"t","i","m","e","s","t","a","m","p",":"," ">> \o <<"'">> \o IsoDate(day) \o ClockSuffix \o <<"'", "\n">>
    \o <<"-","-","-","\n">> \o <<"\n">> \o text

\* C7: a text event received after a directive of the same chat stored the
\* (non-empty) name N is captured under N: its write puts the annotated text
\* (frontmatter with title N and the day's date, then the text) in the local
\* file N, and its last step, when nothing raises, commits the local file at
\* path N and acknowledges N to the chat; so does "Hello world" after
\* "Save As: My Notes", with N = My_Notes.
C7_EndToEnd ==
    [][\A s \in Slots :
         (hs[s].named.present /\ hs[s].named.value # <<>>) =>
            LET name == hs[s].named.value
                doc == CaptureOf(name, hs[s].chat, hs[s].day, hs[s].input)
            IN  /\ (hs[s].pc = "write" /\ hs'[s].pc = "commit") =>
                      /\ JoinScrolls(name) \in DOMAIN fs'
                      /\ fs'[JoinScrolls(name)] = doc
                /\ (hs[s].pc = "commit" /\ hs'[s].pc = "idle" /\ last'.ok) =>
                      /\ name \in DOMAIN remote'
                      /\ remote'[name] = fs[JoinScrolls(name)]
                      /\ last'.acks = <<Reply(hs[s].chat, "scroll_saved", name)>>
      ]_vars

\* C8: every completed content event has sent exactly one message to the chat:
\* a success acknowledgment if the capture succeeded, a failure one if a step
\* of the capture failed.  An event whose only failure is the sending of the
\* message itself is left out: no acknowledgment can reach the chat then.
C8_OneAckPerContentEvent ==
    (last.kind \in {"text", "photo"} /\ last.failed # "reply") =>
        /\ Len(last.acks) = 1
        /\ last.ok => last.acks[1].kind \in {"scroll_saved", "image_saved"}
        /\ ~last.ok => last.acks[1].kind = "failed"

\* C9: no step of the handling of a content event changes what
\* get_last_filename returns, for any chat.
C9_ContentLeavesSessions ==
    [][ContentStep => \A c \in Chats : get_last_filename(c)' = get_last_filename(c)]_vars

\* the name C10 expects: the last name a directive stored, or the fallback
ExpectedName(chat_id, fallback) ==
    IF lastSet[chat_id].present /\ lastSet[chat_id].value # <<>>
    THEN lastSet[chat_id].value
    ELSE fallback

\* C10: a text event resolves to the chat's last-set name, or to "scroll.md" if
\* none was set or the last one is empty, and never to the empty name; a photo
\* event resolves to the last-set name, or to the basename of the file path.
C10_FilenameResolution ==
    [][ /\ \A s \in Slots :
             (hs[s].pc = "idle" /\ hs'[s].pc = "open") =>
                 /\ hs'[s].filename = ExpectedName(hs'[s].chat, DefaultName)
                 /\ hs'[s].filename # <<>>
        /\ (received' # received /\ last'.kind = "photo" /\ last'.ok) =>
                 last'.acks[1].filename = ExpectedName(last'.chat, <<"f","i","l","e","_","0",".","j","p","g">>)
      ]_vars

\* C14: the sanitizer is idempotent: applied to its own result, it returns that
\* result unchanged, for every name.
C14_SanitizeIdempotent ==
    Len(probe.outs) = 2 => probe.outs[2] = probe.outs[1]

\* a name the sanitizer changed, to a non-empty result, sanitized twice
C14_Witness ==
    /\ Len(probe.outs) = 2
    /\ probe.outs[1] # probe.arg
    /\ probe.outs[1] # <<>>

\* the characters the claims name: letters, digits, underscore, hyphen, dot, slash
ClaimedChars ==
    Range(LowerSeq) \cup Range(UpperSeq) \cup Range(DigitSeq) \cup {"_", "-", ".", "/"}

\* C15 as claimed: the result holds characters of the allowed set only, and a
\* name made only of characters outside the allowed set (the empty name among
\* them) gives the empty result.
C15_OnlyAllowedElseEmpty ==
    Len(probe.outs) >= 1 =>
        /\ \A i \in DOMAIN probe.outs[1] : probe.outs[1][i] \in ClaimedChars
        /\ (\A i \in DOMAIN probe.arg : probe.arg[i] \notin ClaimedChars)
              => probe.outs[1] = <<>>

\* C15 as amended: the result holds characters of the allowed set only, and a
\* name made only of characters that are neither allowed nor replaced (a space
\* becomes an underscore, an apostrophe a hyphen) gives the empty result.
C15_OnlyAllowed ==
    Len(probe.outs) >= 1 =>
        /\ \A i \in DOMAIN probe.outs[1] : probe.outs[1][i] \in ClaimedChars
        /\ (\A i \in DOMAIN probe.arg : probe.arg[i] \notin ClaimedChars \cup {" ", "'"})
              => probe.outs[1] = <<>>

\* a non-empty name of removed characters only gave the empty result
C15_Witness ==
    /\ Len(probe.outs) >= 1
    /\ probe.arg # <<>>
    /\ \A i \in DOMAIN probe.arg : probe.arg[i] \notin ClaimedChars \cup {" ", "'"}
    /\ probe.outs[1] = <<>>

\* C11: a read that passed the gate and got an answer from the repository
\* answers 404 when the repository answered 404, the repository's status when
\* that is any other status outside 200..299, and 200 only when the repository
\* answered 200 for a path it holds, with that path's content, decoded, and
\* its revision.
C11_ReadStatuses ==
    [][(lastApi' # lastApi /\ lastApi'.endpoint = "read" /\ lastApi'.upstream # 0) =>
          /\ lastApi'.upstream = 404 => lastApi'.status = 404
          /\ lastApi'.upstream \notin 200..299 => lastApi'.status = lastApi'.upstream
          /\ lastApi'.status = 200 =>
                /\ lastApi'.upstream \in 200..299
                /\ lastApi'.path \in DOMAIN remote
                /\ lastApi'.content = Some(remote[lastApi'.path])
                /\ lastApi'.revision = Some(BlobSha(remote[lastApi'.path]))
      ]_vars

\* a read of a path another client had pushed: 200 with the content pushed
C11_Witness ==
    /\ lastApi.endpoint = "read"
    /\ lastApi.status = 200
    /\ lastApi.path \in DOMAIN remote
    /\ lastApi.content = Some(remote[lastApi.path])
    /\ lastApi.revision = Some(BlobSha(remote[lastApi.path]))

\* the number a digit stands for, and int(s) for a string of digits
DigitValue(ch) == (CHOOSE i \in DOMAIN DigitSeq : DigitSeq[i] = ch) - 1

RECURSIVE StrToInt(_)
StrToInt(s) ==
    IF s = <<>> THEN 0
    ELSE StrToInt(SubSeq(s, 1, Len(s) - 1)) * 10 + DigitValue(s[Len(s)])

\* the two numbers of a label "cycleNumber.cycleDay", read back from its text
LabelParts(label) ==
    LET dots == {i \in DOMAIN label : label[i] = "."}
        dot == CHOOSE i \in dots : TRUE
    IN  [wellformed |-> /\ Cardinality(dots) = 1
                        /\ \A i \in DOMAIN label \ dots : label[i] \in Range(DigitSeq)
                        /\ dot > 1 /\ dot < Len(label),
         cycleNumber |-> StrToInt(SubSeq(label, 1, dot - 1)),
         cycleDay |-> StrToInt(SubSeq(label, dot + 1, Len(label)))]

\* the epoch date of the user a notation exchange was answered for
EpochOf(x) == Users[OfferedKey(x)].spiral_start_date

\* C12: for a target date on or after the epoch date, delta days after it, the
\* label answered reads "cycleNumber.cycleDay" with cycleNumber = delta div 9 + 1
\* and cycleDay = delta mod 9 + 1, cycleDay in 1..9 and cycleNumber >= 1; delta 0
\* gives "1.1", delta 8 gives "1.9" and delta 9 gives "2.1".
C12_NotationLabel ==
    (lastApi.endpoint = "notation" /\ lastApi.parsed.present
        /\ lastApi.parsed.value >= EpochOf(lastApi)) =>
        LET delta == lastApi.parsed.value - EpochOf(lastApi)
            parts == LabelParts(lastApi.notation.value)
        IN  /\ lastApi.status = 200
            /\ lastApi.notation.present
            /\ parts.wellformed
            /\ parts.cycleNumber >= 1
            /\ parts.cycleDay \in 1..9
            /\ (parts.cycleNumber - 1) * 9 + (parts.cycleDay - 1) = delta
            /\ delta = 0 => lastApi.notation.value = <<"1", ".", "1">>
            /\ delta = 8 => lastApi.notation.value = <<"1", ".", "9">>
            /\ delta = 9 => lastApi.notation.value = <<"2", ".", "1">>

\* the last day of the second cycle: delta 17 answered as "2.9"
C12_Witness ==
    /\ lastApi.endpoint = "notation"
    /\ lastApi.parsed.present
    /\ lastApi.parsed.value - EpochOf(lastApi) = 17
    /\ lastApi.notation = Some(<<"2", ".", "9">>)

\* C13: a target date before the epoch date gives no label, and the request,
\* the gate passed, is answered 400, in the json and in the short format.
C13_BeforeEpochIs400 ==
    (lastApi.endpoint = "notation" /\ lastApi.parsed.present
        /\ lastApi.parsed.value < EpochOf(lastApi)) =>
        /\ lastApi.format \in {"json", "short"}
        /\ lastApi.status = 400
        /\ ~lastApi.notation.present

\* the day before the epoch date, asked for in the short format: 400
C13_Witness ==
    /\ lastApi.endpoint = "notation"
    /\ lastApi.format = "short"
    /\ lastApi.parsed = Some(EpochOf(lastApi) - 1)
    /\ lastApi.status = 400

\* an exchange of a gated endpoint that records the request's header and query
GateExchange(x) == x.endpoint \in {"notation", "read", "write"} /\ x.stage = "request"

\* the gate refused the request: 401 or 403 before any call to the repository
Refused(x) == x.status \in {401, 403} /\ x.calls = 0 /\ x.user = ""

\* the gate decided on key alone: access as the user of key, or a refusal
DecidedBy(x, key) ==
    IF key \in DOMAIN Users
    THEN ~Refused(x) /\ x.user = Users[key].name
    ELSE Refused(x)

\* C16 as claimed: when the header and the query parameter are both supplied,
\* the header's value alone decides between a refusal and access as the
\* header's user, whatever the query parameter is.
C16_HeaderAloneDecides ==
    (GateExchange(lastApi) /\ lastApi.header.present /\ lastApi.query.present) =>
        DecidedBy(lastApi, lastApi.header.value)

\* C16 as amended: the key may come in the header or in the query parameter; a
\* header that is supplied and not empty decides alone, whatever the query
\* parameter is; with no header, or an empty one, the query parameter decides.
C16_HeaderFirst ==
    GateExchange(lastApi) =>
        IF lastApi.header.present /\ lastApi.header.value # ""
        THEN DecidedBy(lastApi, lastApi.header.value)
        ELSE IF lastApi.query.present
        THEN DecidedBy(lastApi, lastApi.query.value)
        ELSE Refused(lastApi) /\ lastApi.status = 401

\* the header of an unknown key with the query parameter of a known one: 403
C16_Witness ==
    /\ GateExchange(lastApi)
    /\ lastApi.header = Key("key-unknown")
    /\ lastApi.query = Key("key-adge")
    /\ lastApi.status = 403

\* writer w's write request is answered by the repository in this step, after a
\* lookup the repository had answered with the path's state
PutAnswered(w) ==
    /\ pw[w].pc = "put"
    /\ pw'[w].pc = "idle"
    /\ pw[w].looked.status \in {200, 404}
    /\ lastApi'.upstream \in {200, 201, 409, 422}

\* C17 as claimed: whatever the interleaving of the lookups and writes of two
\* /github/write requests for one path, once a write request was issued the
\* path holds the content of that request.
C17_LastWriteWins ==
    [][\A w \in Writers : PutAnswered(w) =>
          /\ pw[w].path \in DOMAIN remote'
          /\ remote'[pw[w].path] = pw[w].content
      ]_vars

\* C17 as amended: a write request is accepted exactly when the path is still
\* as the request's lookup found it; an accepted request leaves its content at
\* the path, and a request whose lookup is stale is answered 409 or 422 and
\* leaves the path as the request accepted last left it.
C17_LastAcceptedWriteWins ==
    [][\A w \in Writers : PutAnswered(w) =>
          LET fresh == pw[w].looked = RemoteGet(remote, pw[w].path)
          IN  /\ fresh <=> lastApi'.upstream \in {200, 201}
              /\ fresh => /\ pw[w].path \in DOMAIN remote'
                          /\ remote'[pw[w].path] = pw[w].content
                          /\ lastApi'.status = 200
              /\ ~fresh => /\ remote' = remote
                           /\ lastApi'.status \in {409, 422}
      ]_vars

\* two requests looked the path up before either wrote: the second write found
\* the path the first had created, and was answered 422
C17_Witness ==
    /\ lastApi.endpoint = "write"
    /\ lastApi.sent.issued
    /\ lastApi.looked.status = 404
    /\ lastApi.sent.existed
    /\ lastApi.upstream = 422
    /\ lastApi.status = 422

\* the names the directives of the model set
DirectiveNames == {DirectiveName(t) : t \in DirectiveTexts}

StepOfChat(c) ==
    \/ \E t \in Texts \cup CrossTexts : ReceiveDirective(c, t)
    \/ \E s \in Slots : /\ hs[s].pc # "idle"
                         /\ hs[s].chat = c
                         /\ hs'[s] # hs[s]
    \/ \E s \in Slots : /\ hs[s].pc = "idle"
                         /\ hs'[s].pc # "idle"
                         /\ hs'[s].chat = c

\* C19: with the events of two chats handled at once, in any interleaving, no
\* step of an event of one chat changes the session value of the other chat,
\* and the document a text capture commits is the document of that capture
\* alone: its own text, annotated with the name resolved for its own chat.
C19_CrossChatPartition ==
    [][ /\ \A c \in Chats : StepOfChat(c) =>
              \A d \in Chats \ {c} : get_last_filename(d)' = get_last_filename(d)
        /\ \A s \in Slots :
              (hs[s].pc = "commit" /\ hs'[s].pc = "idle" /\ last'.failed \in {"", "reply"}) =>
                  /\ hs[s].filename \in DOMAIN remote'
                  /\ remote'[hs[s].filename] = hs[s].text
      ]_vars

\* the step in which the handling of a content event ends
ContentEventEnds ==
    \/ \E s \in Slots : hs[s].pc # "idle" /\ hs'[s].pc = "idle"
    \/ received' # received /\ last'.kind = "photo"

\* C20: when the handling of a content event ends with a success
\* acknowledgment, the local file of the name acknowledged has been written and
\* the repository holds that file's content under that name, and the response
\* has ok = true; when the local write or the commit raised, no acknowledgment
\* was sent and the response has ok = false.
C20_AckAfterWriteAndCommit ==
    [][ContentEventEnds =>
          /\ last'.acks # <<>> =>
                LET name == last'.acks[1].filename
                IN  /\ last'.acks[1].kind \in {"scroll_saved", "image_saved"}
                    /\ last'.ok
                    /\ JoinScrolls(name) \in DOMAIN fs'
                    /\ name \in DOMAIN remote'
                    /\ remote'[name] = fs'[JoinScrolls(name)]
          /\ last'.failed \in {"local_write", "commit"} =>
                /\ last'.acks = <<>>
                /\ ~last'.ok
                /\ last'.status = 200
      ]_vars

\* a text capture that was written, committed and then acknowledged
C20_Witness ==
    /\ last.kind = "text"
    /\ last.ok
    /\ Len(last.acks) = 1
    /\ last.acks[1].kind = "scroll_saved"
    /\ last.acks[1].filename \in DOMAIN remote
    /\ JoinScrolls(last.acks[1].filename) \in DOMAIN fs


=============================================================================
